---------------------------- MODULE Spec2Model ----------------------------
(***************************************************************************)
(* The stimpl evaluator (stimpl/runtime.py): the environment chain `State` *)
(* and the recursive function `evaluate`, run as an abstract machine.      *)
(*                                                                         *)
(* One activation of `evaluate` that is suspended in a recursive call is a *)
(* frame of `stack`; `control` is what the running activation is doing:    *)
(* being called on a node, returning a triple, or raising.  An action is   *)
(* the code of one `case` of `evaluate`.                                   *)
(*                                                                         *)
(* Python values are encoded as tuples of integers:                        *)
(*   int n           <<n>>                                                 *)
(*   bool b          <<1>> / <<0>>   (bool is a subclass of int: True == 1) *)
(*   float n/d       <<n, d>>, a rational in lowest terms with d > 0       *)
(*   str             the tuple of its code points                          *)
(*   None            <<>>                                                  *)
(* A value is only ever read together with its type tag.                   *)
(***************************************************************************)
EXTENDS Integers, Sequences, FiniteSets, TLC

VARIABLES
    program,    \* the root node handed to run_stimpl
    control,    \* the running activation: a call, a return or a raise
    stack,      \* suspended activations of evaluate, innermost last
    output,     \* the lines written to standard output, oldest first
    evaluated   \* history: the path of every node evaluate was called on

vars == <<program, control, stack, output, evaluated>>

(***************************************************************************)
(* Bounds of the model.                                                    *)
(***************************************************************************)
\* integer literals of the division programs range over -MaxInt..MaxInt
MaxInt == 7
\* calls of evaluate in one run (a While loop need not terminate)
MaxCalls == 40

(***************************************************************************)
(* Type tags (stimpl/types.py) and Python values.                          *)
(***************************************************************************)
Unit == "Unit"
Integer == "Integer"
FloatingPoint == "FloatingPoint"
String == "String"
Boolean == "Boolean"

None == <<>>
\* the tag position of `(None, None)`, runtime.py line 100
NoType == "None"

PyInt(n) == <<n>>
PyBool(b) == IF b THEN <<1>> ELSE <<0>>
PyStr(codes) == codes

Abs(n) == IF n < 0 THEN -n ELSE n

RECURSIVE Gcd(_, _)
Gcd(a, b) == IF b = 0 THEN a ELSE Gcd(b, a % b)

\* the float n/d, in lowest terms
PyFloat(n, d) ==
    LET g == Gcd(Abs(n), Abs(d))
        s == IF d < 0 THEN -1 ELSE 1
    IN  <<(s * n) \div g, (s * d) \div g>>

\* bool(v): the truth value Python's `while v:` and `if v:` test
Truthy(value, type) ==
    CASE type = Unit -> FALSE
      [] type = String -> Len(value) > 0
      [] OTHER -> value[1] # 0

\* v == 0 or v == 0.0
EqualsZero(value, type) ==
    CASE type \in {Integer, Boolean, FloatingPoint} -> value[1] = 0
      [] OTHER -> FALSE

(***************************************************************************)
(* Interpreter State: the chain of bindings, newest first.                 *)
(***************************************************************************)
EmptyState == <<>>

\* the binding takes the place of the older bindings of the name
set_value_Replacing(self, variable_name, variable_value, variable_type) ==
    LET Other(binding) == binding.variable_name # variable_name
    IN  <<[variable_name |-> variable_name,
           value |-> <<variable_value, variable_type>>]>> \o SelectSeq(self, Other)

set_value(self, variable_name, variable_value, variable_type) ==
    <<[variable_name |-> variable_name,
       value |-> <<variable_value, variable_type>>]>> \o self

\* the oldest binding of the name, not the newest
get_value_Oldest(self, variable_name) ==
    LET bound == {i \in DOMAIN self : self[i].variable_name = variable_name}
    IN  IF bound = {} THEN None
        ELSE self[CHOOSE i \in bound : \A j \in bound : j <= i].value

RECURSIVE get_value(_, _)
get_value(self, variable_name) ==
    IF self = EmptyState THEN None
    ELSE IF Head(self).variable_name = variable_name THEN Head(self).value
    ELSE get_value(Tail(self), variable_name)

(***************************************************************************)
(* AST nodes (stimpl/expression.py).                                       *)
(***************************************************************************)
Ren == [node |-> "Ren"]
IntLiteral(l) == [node |-> "IntLiteral", literal |-> PyInt(l)]
FloatingPointLiteral(n, d) == [node |-> "FloatingPointLiteral", literal |-> PyFloat(n, d)]
StringLiteral(l) == [node |-> "StringLiteral", literal |-> PyStr(l)]
BooleanLiteral(l) == [node |-> "BooleanLiteral", literal |-> PyBool(l)]
Print_(e) == [node |-> "Print", to_print |-> e]
Sequence(es) == [node |-> "Sequence", exprs |-> es]
Program(es) == [node |-> "Program", exprs |-> es]
Variable(name) == [node |-> "Variable", variable_name |-> name]
Assign(name, e) == [node |-> "Assign", variable |-> Variable(name), value |-> e]
Binary(kind, l, r) == [node |-> kind, left |-> l, right |-> r]
Not(e) == [node |-> "Not", expr |-> e]
If(c, t, f) == [node |-> "If", condition |-> c, true |-> t, false |-> f]
While(c, b) == [node |-> "While", condition |-> c, body |-> b]


(***************************************************************************)
(* The machine: calls, returns and raises of evaluate.                     *)
(***************************************************************************)
\* evaluate(expression, state) is entered; path is the node's place in program
Call(expression, path, state) ==
    [mode |-> "call", expression |-> expression, path |-> path, state |-> state]

\* return (value, type, state)
Return(value, type, state) ==
    [mode |-> "return", value |-> value, type |-> type, state |-> state]

\* raise error: no case of evaluate catches, so every activation is unwound
Raise(error) == [mode |-> "raise", error |-> error]

Top == stack[Len(stack)]
Pop == SubSeq(stack, 1, Len(stack) - 1)
Push(frame) == Append(stack, frame)
Replace(frame) == Append(Pop, frame)

\* the activation entered by the running call, suspended at label pc
Frame(pc) ==
    [expression |-> control.expression, path |-> control.path,
     state |-> control.state, pc |-> pc]

\* this activation is suspended at pc and takes its label to `to`
At(to) == [Top EXCEPT !.pc = to]

Calling(kind) == control.mode = "call" /\ control.expression.node = kind

Returning(kind, pc) ==
    /\ control.mode = "return"
    /\ stack # <<>>
    /\ Top.expression.node = kind
    /\ Top.pc = pc

\* the running activation calls evaluate(expression, state), leaving newstack
Descend(newstack, expression, path, state) ==
    /\ Len(evaluated) < MaxCalls
    /\ control' = Call(expression, path, state)
    /\ stack' = newstack
    /\ evaluated' = Append(evaluated, path)
    /\ UNCHANGED <<program, output>>

\* the running activation returns to its caller, leaving newstack
Finish(newstack, value, type, state) ==
    /\ control' = Return(value, type, state)
    /\ stack' = newstack
    /\ UNCHANGED <<program, output, evaluated>>

\* the lines written so far are lost with the activations
Fail_OutputDropped(error) ==
    /\ control' = Raise(error)
    /\ stack' = <<>>
    /\ output' = <<>>
    /\ UNCHANGED <<program, evaluated>>

\* the running activation raises
Fail(error) ==
    /\ control' = Raise(error)
    /\ stack' = <<>>
    /\ UNCHANGED <<program, output, evaluated>>

(***************************************************************************)
(* evaluate: leaves.                                                       *)
(***************************************************************************)
evaluate_Ren ==
    /\ Calling("Ren")
    /\ Finish(stack, None, Unit, control.state)

evaluate_IntLiteral ==
    /\ Calling("IntLiteral")
    /\ Finish(stack, control.expression.literal, Integer, control.state)

evaluate_FloatingPointLiteral ==
    /\ Calling("FloatingPointLiteral")
    /\ Finish(stack, control.expression.literal, FloatingPoint, control.state)

evaluate_StringLiteral ==
    /\ Calling("StringLiteral")
    /\ Finish(stack, control.expression.literal, String, control.state)

evaluate_BooleanLiteral ==
    /\ Calling("BooleanLiteral")
    /\ Finish(stack, control.expression.literal, Boolean, control.state)

evaluate_Variable ==
    /\ Calling("Variable")
    /\ LET value == get_value(control.state, control.expression.variable_name)
       IN  IF value = None
           THEN Fail("InterpSyntaxError")
           ELSE Finish(stack, value[1], value[2], control.state)

(***************************************************************************)
(* evaluate: Print, Sequence / Program, Assign.                            *)
(***************************************************************************)
\* decimal digits of a natural number, as code points
RECURSIVE Digits(_)
Digits(n) == IF n < 10 THEN <<48 + n>> ELSE Digits(n \div 10) \o <<48 + (n % 10)>>

\* the digits of r / d after the point, r < d, by long division, k at most
RECURSIVE Fraction(_, _, _)
Fraction(r, d, k) ==
    IF r = 0 \/ k = 0 THEN <<>>
    ELSE <<48 + ((10 * r) \div d)>> \o Fraction((10 * r) % d, d, k - 1)

\* f"{value}": str() of an int, a bool, a str and a float; the text of a
\* float is exact when its decimal expansion ends within 16 digits
Text(value, type) ==
    CASE type = Integer ->
            IF value[1] < 0 THEN <<45>> \o Digits(-value[1]) ELSE Digits(value[1])
      [] type = Boolean ->
            IF value[1] # 0 THEN <<84, 114, 117, 101>> ELSE <<70, 97, 108, 115, 101>>
      [] type = String -> value
      [] type = FloatingPoint ->
            LET whole == Abs(value[1]) \div value[2]
                rest == Fraction(Abs(value[1]) % value[2], value[2], 16)
            IN  (IF value[1] < 0 THEN <<45>> ELSE <<>>) \o Digits(whole) \o <<46>>
                \o (IF rest = <<>> THEN <<48>> ELSE rest)

\* lines 74-78: the line print() writes, "Unit" for a value of the Unit type
Line(printable_value, printable_type) ==
    IF printable_type = Unit
    THEN <<85, 110, 105, 116>>
    ELSE Text(printable_value, printable_type)

evaluate_Print ==
    \/ /\ Calling("Print")
       /\ Descend(Push(Frame("to_print")), control.expression.to_print,
                  control.path \o <<1>>, control.state)
    \/ /\ Returning("Print", "to_print")
       /\ control' = Return(control.value, control.type, control.state)
       /\ stack' = Pop
       /\ output' = Append(output, Line(control.value, control.type))
       /\ UNCHANGED <<program, evaluated>>

\* Sequence and Program share one case; `index` is the loop's position
evaluate_Sequence ==
    \/ /\ Calling("Sequence") \/ Calling("Program")
       /\ IF control.expression.exprs = <<>>
          THEN Fail("UnboundLocalError")
          ELSE Descend(Push([Frame("exprs") EXCEPT !.pc = "exprs"] @@ [index |-> 1]),
                       control.expression.exprs[1],
                       control.path \o <<1>>, control.state)
    \/ /\ Returning("Sequence", "exprs") \/ Returning("Program", "exprs")
       /\ IF Top.index < Len(Top.expression.exprs)
          THEN Descend(Replace([Top EXCEPT !.index = @ + 1]),
                       Top.expression.exprs[Top.index + 1],
                       Top.path \o <<Top.index + 1>>, control.state)
          ELSE Finish(Pop, control.value, control.type, control.state)

\* the rebinding is never refused
Mismatched_Unchecked(value_type, variable_type) == FALSE

\* line 103: the rebinding is refused
Mismatched(value_type, variable_type) ==
    value_type # variable_type /\ variable_type # NoType

evaluate_Assign ==
    \/ /\ Calling("Assign")
       /\ Descend(Push(Frame("value")), control.expression.value,
                  control.path \o <<1>>, control.state)
    \/ /\ Returning("Assign", "value")
       /\ LET value_result == control.value
              value_type == control.type
              new_state == control.state
              variable_name == Top.expression.variable.variable_name
              variable_from_state == get_value(new_state, variable_name)
              variable_type == IF variable_from_state # None
                               THEN variable_from_state[2] ELSE NoType
          IN  IF Mismatched(value_type, variable_type)
              THEN Fail("InterpTypeError")
              ELSE Finish(Pop, value_result, value_type,
                          set_value(new_state, variable_name, value_result, value_type))

(***************************************************************************)
(* Native arithmetic and comparison on values of one type.                 *)
(***************************************************************************)
\* left + right for int, float and str
PyAdd(left, right, type) ==
    CASE type = Integer -> PyInt(left[1] + right[1])
      [] type = FloatingPoint ->
            PyFloat(left[1] * right[2] + right[1] * left[2], left[2] * right[2])
      [] OTHER -> left \o right

\* left - right for int and float
PySubtract(left, right, type) ==
    CASE type = Integer -> PyInt(left[1] - right[1])
      [] OTHER ->
            PyFloat(left[1] * right[2] - right[1] * left[2], left[2] * right[2])

\* left * right for int and float
PyMultiply(left, right, type) ==
    CASE type = Integer -> PyInt(left[1] * right[1])
      [] OTHER -> PyFloat(left[1] * right[1], left[2] * right[2])

\* left / right, Python's true division: the quotient as a float
PyTrueDivide(left, right, type) ==
    CASE type = Integer -> PyFloat(left[1], right[1])
      [] OTHER -> PyFloat(left[1] * right[2], left[2] * right[1])

\* int(x) of a float: the fraction is dropped, rounding toward zero
PyIntOfFloat(x) ==
    PyInt((IF x[1] < 0 THEN -1 ELSE 1) * (Abs(x[1]) \div x[2]))

\* str < str: by code points, a proper prefix first
RECURSIVE StrLess(_, _)
StrLess(left, right) ==
    CASE right = <<>> -> FALSE
      [] left = <<>> -> TRUE
      [] Head(left) # Head(right) -> Head(left) < Head(right)
      [] OTHER -> StrLess(Tail(left), Tail(right))

\* left < right for int, bool, str and float
PyLess(left, right, type) ==
    CASE type = String -> StrLess(left, right)
      [] type = FloatingPoint -> left[1] * right[2] < right[1] * left[2]
      [] OTHER -> left[1] < right[1]

\* left == right for two values of one type
PyEqual(left, right, type) == left = right

(***************************************************************************)
(* evaluate: the binary operators.  Each case evaluates left, then right,  *)
(* then computes; the *Result operators are the code after the two calls:  *)
(* [error |-> class] or [error |-> NoError, value |-> v, type |-> t].      *)
(***************************************************************************)
NoError == "none"
Raised(error) == [error |-> error]
Value(value, type) == [error |-> NoError, value |-> value, type |-> type]

Comparable == {Integer, Boolean, String, FloatingPoint}

AddResult(left_result, left_type, right_result, right_type) ==
    IF left_type # right_type THEN Raised("InterpTypeError")
    ELSE IF left_type \in {Integer, String, FloatingPoint}
    THEN Value(PyAdd(left_result, right_result, left_type), left_type)
    ELSE Raised("InterpTypeError")

SubtractResult(left_result, left_type, right_result, right_type) ==
    IF left_type # right_type THEN Raised("InterpTypeError")
    ELSE IF left_type \in {Integer, FloatingPoint}
    THEN Value(PySubtract(left_result, right_result, left_type), left_type)
    ELSE Raised("InterpTypeError")

MultiplyResult(left_result, left_type, right_result, right_type) ==
    IF left_type # right_type THEN Raised("InterpTypeError")
    ELSE IF left_type \in {Integer, FloatingPoint}
    THEN Value(PyMultiply(left_result, right_result, left_type), left_type)
    ELSE Raised("InterpTypeError")

\* the quotient rounded down, as left_result // right_result would
IntegerQuotient_Floor(left_result, right_result) ==
    LET s == IF right_result[1] < 0 THEN -1 ELSE 1
    IN  PyInt((s * left_result[1]) \div (s * right_result[1]))

\* lines 175-176: result = left_result / right_result; result = int(result)
IntegerQuotient(left_result, right_result) ==
    PyIntOfFloat(PyTrueDivide(left_result, right_result, Integer))

\* the zero check made for Integer operands only
DivideResult_IntegerZeroOnly(left_result, left_type, right_result, right_type) ==
    IF left_type # right_type THEN Raised("InterpTypeError")
    ELSE IF left_type = Integer
    THEN IF EqualsZero(right_result, right_type) THEN Raised("InterpMathError")
         ELSE Value(IntegerQuotient(left_result, right_result), left_type)
    ELSE IF left_type = FloatingPoint
    THEN IF EqualsZero(right_result, right_type) THEN Raised("ZeroDivisionError")
         ELSE Value(PyTrueDivide(left_result, right_result, FloatingPoint), left_type)
    ELSE Raised("InterpTypeError")

DivideResult(left_result, left_type, right_result, right_type) ==
    IF left_type # right_type THEN Raised("InterpTypeError")
    ELSE IF EqualsZero(right_result, right_type) THEN Raised("InterpMathError")
    ELSE IF left_type = Integer
    THEN Value(IntegerQuotient(left_result, right_result), left_type)
    ELSE IF left_type = FloatingPoint
    THEN Value(PyTrueDivide(left_result, right_result, FloatingPoint), left_type)
    ELSE Raised("InterpTypeError")

AndResult(left_value, left_type, right_value, right_type) ==
    IF left_type # right_type THEN Raised("InterpTypeError")
    ELSE IF left_type = Boolean
    THEN Value(IF Truthy(left_value, left_type) THEN right_value ELSE left_value,
               left_type)
    ELSE Raised("InterpTypeError")

OrResult(left_value, left_type, right_value, right_type) ==
    IF left_type # right_type THEN Raised("InterpTypeError")
    ELSE IF left_type = Boolean
    THEN Value(IF Truthy(left_value, left_type) THEN left_value ELSE right_value,
               left_type)
    ELSE Raised("InterpTypeError")

LtResult(left_value, left_type, right_value, right_type) ==
    IF left_type # right_type THEN Raised("InterpTypeError")
    ELSE IF left_type \in Comparable
    THEN Value(PyBool(PyLess(left_value, right_value, left_type)), Boolean)
    ELSE IF left_type = Unit THEN Value(PyBool(FALSE), Boolean)
    ELSE Raised("InterpTypeError")

LteResult(left_value, left_type, right_value, right_type) ==
    IF left_type # right_type THEN Raised("InterpTypeError")
    ELSE IF left_type \in Comparable
    THEN Value(PyBool(~PyLess(right_value, left_value, left_type)), Boolean)
    ELSE IF left_type = Unit THEN Value(PyBool(TRUE), Boolean)
    ELSE Raised("InterpTypeError")

GtResult(left_value, left_type, right_value, right_type) ==
    IF left_type # right_type THEN Raised("InterpTypeError")
    ELSE IF left_type \in Comparable
    THEN Value(PyBool(PyLess(right_value, left_value, left_type)), Boolean)
    ELSE IF left_type = Unit THEN Value(PyBool(FALSE), Boolean)
    ELSE Raised("InterpTypeError")

GteResult(left_value, left_type, right_value, right_type) ==
    IF left_type # right_type THEN Raised("InterpTypeError")
    ELSE IF left_type \in Comparable
    THEN Value(PyBool(~PyLess(left_value, right_value, left_type)), Boolean)
    ELSE IF left_type = Unit THEN Value(PyBool(TRUE), Boolean)
    ELSE Raised("InterpTypeError")

EqResult(left_value, left_type, right_value, right_type) ==
    IF left_type # right_type THEN Raised("InterpTypeError")
    ELSE IF left_type \in Comparable
    THEN Value(PyBool(PyEqual(left_value, right_value, left_type)), Boolean)
    ELSE IF left_type = Unit THEN Value(PyBool(TRUE), Boolean)
    ELSE Raised("InterpTypeError")

NeResult(left_value, left_type, right_value, right_type) ==
    IF left_type # right_type THEN Raised("InterpTypeError")
    ELSE IF left_type \in Comparable
    THEN Value(PyBool(~PyEqual(left_value, right_value, left_type)), Boolean)
    ELSE IF left_type = Unit THEN Value(PyBool(FALSE), Boolean)
    ELSE Raised("InterpTypeError")

BinaryKinds ==
    {"Add", "Subtract", "Multiply", "Divide", "And", "Or",
     "Lt", "Lte", "Gt", "Gte", "Eq", "Ne"}

\* the code that follows the two calls in the case of `kind`
BinaryResult(kind, lv, lt, rv, rt) ==
    CASE kind = "Add" -> AddResult(lv, lt, rv, rt)
      [] kind = "Subtract" -> SubtractResult(lv, lt, rv, rt)
      [] kind = "Multiply" -> MultiplyResult(lv, lt, rv, rt)
      [] kind = "Divide" -> DivideResult(lv, lt, rv, rt)
      [] kind = "And" -> AndResult(lv, lt, rv, rt)
      [] kind = "Or" -> OrResult(lv, lt, rv, rt)
      [] kind = "Lt" -> LtResult(lv, lt, rv, rt)
      [] kind = "Lte" -> LteResult(lv, lt, rv, rt)
      [] kind = "Gt" -> GtResult(lv, lt, rv, rt)
      [] kind = "Gte" -> GteResult(lv, lt, rv, rt)
      [] kind = "Eq" -> EqResult(lv, lt, rv, rt)
      [] kind = "Ne" -> NeResult(lv, lt, rv, rt)

\* the right operand evaluated in the state the node was entered with
RightOperandState_Incoming(frame, new_state) == frame.state

\* `evaluate(right, new_state)`: the state the right operand is evaluated in,
\* given the activation's frame and the state the left operand returned
RightOperandState(frame, new_state) == new_state

\* left_x, left_type, new_state = evaluate(left, state)
EvaluateLeft(kind) ==
    /\ Calling(kind)
    /\ Descend(Push(Frame("left")), control.expression.left,
               control.path \o <<1>>, control.state)

\* right_x, right_type, new_state = evaluate(right, new_state)
EvaluateRight(kind) ==
    /\ Returning(kind, "left")
    /\ Descend(Replace(At("right") @@
                       [left_value |-> control.value, left_type |-> control.type]),
               Top.expression.right, Top.path \o <<2>>,
               RightOperandState(Top, control.state))

\* the checks and the computation; new_state is the right operand's state
Compute(kind) ==
    /\ Returning(kind, "right")
    /\ LET result == BinaryResult(kind, Top.left_value, Top.left_type,
                                  control.value, control.type)
       IN  IF result.error # NoError
           THEN Fail(result.error)
           ELSE Finish(Pop, result.value, result.type, control.state)

BinaryOperator(kind) == EvaluateLeft(kind) \/ EvaluateRight(kind) \/ Compute(kind)

evaluate_Add == BinaryOperator("Add")
evaluate_Subtract == BinaryOperator("Subtract")
evaluate_Multiply == BinaryOperator("Multiply")
evaluate_Divide == BinaryOperator("Divide")
\* And that leaves the right operand out when the left one is false
evaluate_And_ShortCircuit ==
    IF Returning("And", "left") /\ ~Truthy(control.value, control.type)
    THEN Finish(Pop, control.value, control.type, control.state)
    ELSE BinaryOperator("And")

evaluate_And == BinaryOperator("And")
evaluate_Or == BinaryOperator("Or")
evaluate_Lt == BinaryOperator("Lt")
evaluate_Lte == BinaryOperator("Lte")
evaluate_Gt == BinaryOperator("Gt")
evaluate_Gte == BinaryOperator("Gte")
evaluate_Eq == BinaryOperator("Eq")
evaluate_Ne == BinaryOperator("Ne")

(***************************************************************************)
(* evaluate: Not, If, While.                                               *)
(***************************************************************************)
evaluate_Not ==
    \/ /\ Calling("Not")
       /\ Descend(Push(Frame("expr")), control.expression.expr,
                  control.path \o <<1>>, control.state)
    \/ /\ Returning("Not", "expr")
       /\ IF control.type = Boolean
          THEN Finish(Pop, PyBool(~Truthy(control.value, control.type)),
                      control.type, control.state)
          ELSE Fail("InterpTypeError")

\* the branches taken for one another
Branch_Inverted(condition_value) == IF Truthy(condition_value, Boolean) THEN 3 ELSE 2

\* lines 233-240: the branch `if condition_value:` selects, as a child index
Branch(condition_value) == IF Truthy(condition_value, Boolean) THEN 2 ELSE 3

Child(expression, index) ==
    CASE index = 1 -> expression.condition
      [] index = 2 -> expression.true
      [] index = 3 -> expression.false

evaluate_If ==
    \/ /\ Calling("If")
       /\ Descend(Push(Frame("condition")), control.expression.condition,
                  control.path \o <<1>>, control.state)
    \/ /\ Returning("If", "condition")
       /\ IF control.type = Boolean
          THEN Descend(Replace(At("branch")),
                       Child(Top.expression, Branch(control.value)),
                       Top.path \o <<Branch(control.value)>>, control.state)
          ELSE Fail("InterpTypeError")
    \/ /\ Returning("If", "branch")
       /\ Finish(Pop, control.value, control.type, control.state)

\* line 380, `while condition_value:` at every test after the first, where
\* the type of the condition is not looked at again
LoopTest(condition_value, condition_type) == Truthy(condition_value, condition_type)

\* line 383
WhileResult(condition_type, new_state) == Return(PyBool(FALSE), condition_type, new_state)

\* lines 380-383 once the condition has been evaluated
Loop(condition_value, condition_type, new_state) ==
    IF LoopTest(condition_value, condition_type)
    THEN Descend(Replace(At("body")), Top.expression.body,
                 Top.path \o <<2>>, new_state)
    ELSE /\ control' = WhileResult(condition_type, new_state)
         /\ stack' = Pop
         /\ UNCHANGED <<program, output, evaluated>>

evaluate_While ==
    \/ /\ Calling("While")
       /\ Descend(Push(Frame("condition")), control.expression.condition,
                  control.path \o <<1>>, control.state)
    \/ /\ Returning("While", "condition")
       /\ IF control.type = Boolean
          THEN Loop(control.value, control.type, control.state)
          ELSE Fail("InterpTypeError")
    \/ /\ Returning("While", "body")
       /\ Descend(Replace(At("recondition")), Top.expression.condition,
                  Top.path \o <<1>>, control.state)
    \/ /\ Returning("While", "recondition")
       /\ Loop(control.value, control.type, control.state)

\* case _: a node of no known kind
Handled ==
    BinaryKinds \cup
    {"Ren", "IntLiteral", "FloatingPointLiteral", "StringLiteral",
     "BooleanLiteral", "Print", "Sequence", "Program", "Variable", "Assign",
     "Not", "If", "While"}

evaluate_Unhandled ==
    /\ control.mode = "call"
    /\ control.expression.node \notin Handled
    /\ Fail("InterpSyntaxError")

(***************************************************************************)
(* run_stimpl and the programs it is given.                                *)
(***************************************************************************)
\* operands without an effect: a literal of every type, the no-op, a read
Atoms ==
    {IntLiteral(0), IntLiteral(2), FloatingPointLiteral(0, 1),
     FloatingPointLiteral(7, 2), StringLiteral(<<97>>), BooleanLiteral(TRUE),
     BooleanLiteral(FALSE), Ren, Variable("x")}

\* operands with an effect: a binding or a line of output
Effects ==
    {Assign("x", IntLiteral(1)), Assign("y", BooleanLiteral(TRUE)),
     Print_(IntLiteral(2)), Print_(BooleanLiteral(FALSE))}

Operands == Atoms \cup Effects

\* what has been bound before the node under study is reached
Preludes ==
    {<<>>,
     <<Assign("x", IntLiteral(3))>>,
     <<Assign("x", BooleanLiteral(FALSE)), Assign("y", StringLiteral(<<98>>)),
       Assign("x", BooleanLiteral(TRUE))>>,
     <<Assign("y", Ren)>>}

BinaryPrograms ==
    {Program(pre \o <<Binary(kind, l, r)>>) :
        pre \in {<<>>, <<Assign("x", IntLiteral(3))>>}, kind \in BinaryKinds, l \in Operands, r \in Operands}

UnaryPrograms ==
    {Program(pre \o <<e>>) :
        pre \in Preludes,
        e \in {Not(o) : o \in Operands} \cup {Print_(o) : o \in Operands}
              \cup Operands
              \cup {Variable("y"), [node |-> "Unhandled"], Sequence(<<>>)}}

\* Divide on two integer literals, over the whole range
DivisionPrograms ==
    {Program(<<Binary("Divide", IntLiteral(a), IntLiteral(b))>>) :
        a \in -MaxInt..MaxInt, b \in -MaxInt..MaxInt}

\* three assignments in a row, of any types, to either name
Literals ==
    {IntLiteral(2), FloatingPointLiteral(7, 2), StringLiteral(<<97>>),
     BooleanLiteral(TRUE), Ren}

Assignments == {Assign(n, l) : n \in {"x", "y"}, l \in Literals}

AssignPrograms ==
    {Program(<<a, b, c, Variable("x")>>) :
        a \in Assignments, b \in Assignments,
        c \in Assignments \cup {Assign("x", Assign("y", l)) : l \in Literals}}

Conditions ==
    {BooleanLiteral(TRUE), BooleanLiteral(FALSE), IntLiteral(0), IntLiteral(2),
     StringLiteral(<<97>>), Ren, Variable("x"),
     Binary("Lt", Variable("x"), IntLiteral(2)),
     Print_(BooleanLiteral(TRUE)), Assign("y", BooleanLiteral(FALSE))}

Branches ==
    {Print_(IntLiteral(1)), Print_(StringLiteral(<<97>>)),
     Assign("y", IntLiteral(2)), Assign("z", Ren), Variable("z"),
     Sequence(<<Print_(Ren), Assign("z", IntLiteral(2))>>)}

IfPrograms ==
    {Program(pre \o <<If(c, t, f), Print_(IntLiteral(0))>>) :
        pre \in {<<>>, <<Assign("x", IntLiteral(0))>>,
                 <<Assign("x", BooleanLiteral(TRUE))>>},
        c \in Conditions, t \in Branches, f \in Branches}

\* conditions of loops over the counter i, bound to 0 before the loop
LoopConditions ==
    {Binary("Lt", Variable("i"), IntLiteral(n)) : n \in 0..3}
    \cup {If(Binary("Lt", Variable("i"), IntLiteral(n)), BooleanLiteral(TRUE), e) :
            n \in 0..2,
            e \in {IntLiteral(0), IntLiteral(2), StringLiteral(<<>>), Ren,
                   FloatingPointLiteral(0, 1), BooleanLiteral(FALSE)}}
    \cup {BooleanLiteral(TRUE), BooleanLiteral(FALSE), IntLiteral(0),
          IntLiteral(2), Ren, Variable("i"), Print_(BooleanLiteral(FALSE)),
          Binary("Ne", Variable("i"), IntLiteral(2))}

Increment == Assign("i", Binary("Add", Variable("i"), IntLiteral(1)))

LoopBodies ==
    {Increment, Ren, Print_(Variable("i")),
     Sequence(<<Print_(Variable("i")), Increment>>),
     Sequence(<<Increment, IntLiteral(2)>>),
     Sequence(<<Increment, Assign("i", StringLiteral(<<97>>))>>),
     Sequence(<<Increment, Assign("j", Variable("i"))>>)}

WhilePrograms ==
    {Program(<<Assign("i", IntLiteral(0)), While(c, b)>> \o post) :
        c \in LoopConditions, b \in LoopBodies,
        post \in {<<>>, <<Print_(Variable("i"))>>}}

\* errors and output in the middle of a sequence
Steps ==
    {Print_(IntLiteral(1)), Print_(Binary("Add", IntLiteral(1), StringLiteral(<<97>>))),
     Print_(Variable("x")), Assign("x", Print_(IntLiteral(2))),
     Binary("Divide", Print_(IntLiteral(2)), Print_(IntLiteral(0))),
     Sequence(<<Print_(Ren), Not(Print_(IntLiteral(2)))>>)}

SequencePrograms ==
    {Program(<<a, Sequence(<<b, c>>)>>) : a \in Steps, b \in Steps, c \in Steps}

Programs ==
    BinaryPrograms \cup UnaryPrograms \cup DivisionPrograms \cup AssignPrograms
    \cup IfPrograms \cup WhilePrograms \cup SequencePrograms

run_stimpl ==
    /\ program \in Programs
    /\ control = Call(program, <<>>, EmptyState)
    /\ stack = <<>>
    /\ output = <<>>
    /\ evaluated = << <<>> >>

Init == run_stimpl

evaluate ==
    \/ evaluate_Ren
    \/ evaluate_IntLiteral
    \/ evaluate_FloatingPointLiteral
    \/ evaluate_StringLiteral
    \/ evaluate_BooleanLiteral
    \/ evaluate_Print
    \/ evaluate_Sequence
    \/ evaluate_Variable
    \/ evaluate_Assign
    \/ evaluate_Add
    \/ evaluate_Subtract
    \/ evaluate_Multiply
    \/ evaluate_Divide
    \/ evaluate_And
    \/ evaluate_Or
    \/ evaluate_Not
    \/ evaluate_If
    \/ evaluate_Lt
    \/ evaluate_Lte
    \/ evaluate_Gt
    \/ evaluate_Gte
    \/ evaluate_Eq
    \/ evaluate_Ne
    \/ evaluate_While
    \/ evaluate_Unhandled

Next == evaluate

Spec == Init /\ [][Next]_vars

(***************************************************************************)
(* Properties.                                                             *)
(***************************************************************************)
\* the run is over: run_stimpl has its triple
Returned == control.mode = "return" /\ stack = <<>>

\* the positions of the bindings of name in a chain, 1 the newest
Bound(state, name) == {i \in DOMAIN state : state[i].variable_name = name}

Newest(positions) == CHOOSE i \in positions : \A j \in positions : i <= j

\* all bindings of one name carry one type tag
TypeConsistent(state) ==
    \A i, j \in DOMAIN state :
        state[i].variable_name = state[j].variable_name
            => state[i].value[2] = state[j].value[2]

\* an Assign whose value has been computed either raises a TypeError, when
\* the newest binding of the name has another type, or binds the name anew
AssignCommits ==
    Returning("Assign", "value") =>
        LET name == Top.expression.variable.variable_name
            bound == Bound(control.state, name)
        IN  IF bound # {} /\ control.state[Newest(bound)].value[2] # control.type
            THEN control' = Raise("InterpTypeError")
            ELSE /\ control'.mode = "return"
                 /\ control'.value = control.value
                 /\ control'.type = control.type
                 /\ Tail(control'.state) = control.state
                 /\ Head(control'.state) =
                        [variable_name |-> name,
                         value |-> <<control.value, control.type>>]

\* C1: in every environment a run from the empty environment passes or
\* returns, all bindings of one name carry the same type; an Assign of a
\* value of another type than the name's binding raises a TypeError and
\* binds nothing, and an Assign to an unbound name succeeds for every type.
C1_TypeFixing ==
    /\ [](control.mode \in {"call", "return"} => TypeConsistent(control.state))
    /\ [][AssignCommits]_vars

\* a run has ended with a name bound twice, and another name bound once
C1_Witness ==
    /\ Returned
    /\ \E i, j \in DOMAIN control.state :
          /\ i < j
          /\ control.state[i].variable_name = control.state[j].variable_name
          /\ control.state[i].value[2] = FloatingPoint
    /\ \E i \in DOMAIN control.state : control.state[i].value[2] = Unit

\* a condition of While has been evaluated, the first time or after a body
ConditionEvaluated ==
    Returning("While", "condition") \/ Returning("While", "recondition")

\* C2: every evaluation of a While condition that yields a non-Boolean type,
\* the first or one after a body, makes evaluate raise a TypeError.
C2_ConditionRechecked ==
    [][ConditionEvaluated /\ control.type # Boolean
        => control' = Raise("InterpTypeError")]_vars

\* both operands of a Divide have been evaluated and the right one is the
\* Integer 0 or the FloatingPoint 0.0
DivideByZero ==
    /\ Returning("Divide", "right")
    /\ control.type \in {Integer, FloatingPoint}
    /\ control.value[1] = 0

\* C3 as claimed: a Divide whose right operand is zero raises MathError
\* whatever the type of the left operand.
C3_ZeroBeforeTypes ==
    [][DivideByZero => control' = Raise("InterpMathError")]_vars

\* C3: a Divide whose operands have the same type and whose right operand
\* is Integer 0 or FloatingPoint 0.0 raises MathError; when the types of the
\* operands differ it raises TypeError, the zero check coming second.
C3_ZeroAfterMismatch ==
    [][DivideByZero =>
        IF Top.left_type = control.type
        THEN control' = Raise("InterpMathError")
        ELSE control' = Raise("InterpTypeError")]_vars

\* a division of a FloatingPoint by 0.0 has raised MathError
C3_Witness ==
    /\ control = Raise("InterpMathError")
    /\ program = Program(<<Binary("Divide", FloatingPointLiteral(7, 2),
                                  FloatingPointLiteral(0, 1))>>)

\* the node at a path of the program: child i of a node is its i-th
\* sub-expression in the order of the node's fields
Part(expression, i) ==
    CASE expression.node \in {"Sequence", "Program"} -> expression.exprs[i]
      [] expression.node = "Print" -> expression.to_print
      [] expression.node = "Assign" -> expression.value
      [] expression.node = "Not" -> expression.expr
      [] expression.node = "If" -> Child(expression, i)
      [] expression.node = "While" ->
            IF i = 1 THEN expression.condition ELSE expression.body
      [] OTHER -> IF i = 1 THEN expression.left ELSE expression.right

RECURSIVE NodeAt(_, _)
NodeAt(expression, path) ==
    IF path = <<>> THEN expression
    ELSE NodeAt(Part(expression, Head(path)), Tail(path))

\* how many times evaluate has been called on the node at path
Calls(path) == Cardinality({i \in DOMAIN evaluated : evaluated[i] = path})

\* the paths of the nodes of one kind that evaluate has been called on
Evaluated(kinds) ==
    {evaluated[i] : i \in {j \in DOMAIN evaluated :
                              NodeAt(program, evaluated[j]).node \in kinds}}

True == PyBool(TRUE)
False == PyBool(FALSE)

\* a While ends, or goes round, after an evaluation of its condition
WhileStep ==
    ConditionEvaluated /\ control'.mode # "raise" =>
        IF control.type = Boolean /\ control.value = True
        THEN control' = Call(Top.expression.body, Top.path \o <<2>>, control.state)
        ELSE /\ control.type = Boolean /\ control.value = False
             /\ control' = Return(False, control.type, control.state)
             /\ stack' = Pop

CountingLoop ==
    Program(<<Assign("i", IntLiteral(0)),
              While(Binary("Lt", Variable("i"), IntLiteral(3)), Increment)>>)

\* C4: a While that ends without error returns the value false with the type
\* and the environment of its last condition evaluation, which yielded
\* false; the body runs once after each condition evaluation that yielded
\* true, and only then; the counting loop ends with false, Boolean and i = 3.
C4_WhileResult ==
    /\ [][WhileStep]_vars
    /\ [](Returned /\ program = CountingLoop =>
            /\ control.value = False
            /\ control.type = Boolean
            /\ get_value(control.state, "i") = <<PyInt(3), Integer>>)

LogicalKinds == {"And", "Or"}

\* the value of And / Or on two booleans
Junction(kind, left, right) ==
    IF kind = "And" THEN PyBool(left = True /\ right = True)
    ELSE PyBool(left = True \/ right = True)

\* an And / Or evaluates its right operand whatever the left one yielded,
\* and on two booleans returns their conjunction / disjunction
LogicalStep ==
    \A kind \in LogicalKinds :
        /\ Returning(kind, "left") =>
              control' = Call(Top.expression.right, Top.path \o <<2>>, control.state)
        /\ Returning(kind, "right") /\ Top.left_type = Boolean
                                    /\ control.type = Boolean =>
              /\ control' = Return(Junction(kind, Top.left_value, control.value),
                                   Boolean, control.state)
              /\ stack' = Pop

\* the effect of the right operand of an And / Or that is the whole program
\* is there when the run has ended
RightEffectKept ==
    Returned /\ Len(program.exprs) = 1 /\ program.exprs[1].node \in LogicalKinds =>
        LET right == program.exprs[1].right
        IN  /\ Calls(<<1, 2>>) = 1
            /\ right.node = "Assign" =>
                  control.state # <<>> /\
                  Head(control.state).variable_name = right.variable.variable_name
            /\ right.node = "Print" =>
                  output # <<>> /\
                  output[Len(output)] = Line(right.to_print.literal,
                                             IF right.to_print.node = "IntLiteral"
                                             THEN Integer ELSE Boolean)

\* C5: And and Or evaluate the right operand exactly once whenever the left
\* operand evaluates without error, whatever its value; a binding or a line
\* of output made by the right operand is in the result, and on booleans the
\* result is the conjunction / disjunction with type Boolean.
C5_NoShortCircuit ==
    /\ [][LogicalStep]_vars
    /\ [](RightEffectKept)
    /\ [](\A p \in Evaluated(LogicalKinds) :
            Calls(p \o <<2>>) <= Calls(p \o <<1>>) /\ Calls(p \o <<1>>) <= Calls(p))

\* And(false, Assign(y, true)) has returned false, with y bound to true
C5_Witness ==
    /\ Returned
    /\ program = Program(<<Binary("And", BooleanLiteral(FALSE),
                                  Assign("y", BooleanLiteral(TRUE)))>>)
    /\ control.value = False
    /\ get_value(control.state, "y") = <<True, Boolean>>

\* an If evaluates the branch its condition selects, in the environment the
\* condition returned, and returns that branch's triple; a condition that is
\* not a Boolean raises a TypeError
IfStep ==
    /\ Returning("If", "condition") =>
          IF control.type = Boolean
          THEN control' =
                 IF control.value = True
                 THEN Call(Top.expression.true, Top.path \o <<2>>, control.state)
                 ELSE Call(Top.expression.false, Top.path \o <<3>>, control.state)
          ELSE control' = Raise("InterpTypeError") /\ evaluated' = evaluated
    /\ Returning("If", "branch") =>
          /\ control' = Return(control.value, control.type, control.state)
          /\ stack' = Pop

\* C6: an If evaluates its condition once and then exactly the branch the
\* condition's value selects, in the environment the condition returned, and
\* returns that branch's triple; the other branch is never evaluated; a
\* condition that is not a Boolean raises a TypeError and evaluates neither.
C6_OneBranch ==
    /\ [][IfStep]_vars
    /\ [](\A p \in Evaluated({"If"}) :
            /\ Calls(p \o <<1>>) <= Calls(p)
            /\ Calls(p \o <<2>>) + Calls(p \o <<3>>) <= Calls(p \o <<1>>))

\* If(false, Print(1), Assign(y, 2)) has run: y is bound, and the only line
\* of output is that of the Print that follows the If
C6_Witness ==
    /\ Returned
    /\ program = Program(<<If(BooleanLiteral(FALSE), Print_(IntLiteral(1)),
                              Assign("y", IntLiteral(2))),
                           Print_(IntLiteral(0))>>)
    /\ get_value(control.state, "y") = <<PyInt(2), Integer>>
    /\ output = <<Line(PyInt(0), Integer)>>
    /\ Calls(<<1, 2>>) = 0

\* a step that raises ends the run and leaves the output as it is; a step
\* from a raise does not exist; the output grows by one line exactly when
\* the operand of a Print has returned
ErrorStep ==
    /\ control.mode # "raise"
    /\ control'.mode = "raise" =>
          stack' = <<>> /\ output' = output /\ evaluated' = evaluated
    /\ IF Returning("Print", "to_print")
       THEN /\ output' = Append(output, Line(control.value, control.type))
            /\ control' = Return(control.value, control.type, control.state)
       ELSE output' = output

\* a step that always raises a TypeError, whatever is bound
FailingStep == Print_(Binary("Add", IntLiteral(1), StringLiteral(<<97>>)))

\* what a first step does in the empty environment: the error it raises,
\* or NoError, and the lines it writes before that
ErrorOf(step) ==
    CASE step = Print_(IntLiteral(1)) -> NoError
      [] step = Assign("x", Print_(IntLiteral(2))) -> NoError
      [] step = Print_(Variable("x")) -> "InterpSyntaxError"
      [] step = Binary("Divide", Print_(IntLiteral(2)), Print_(IntLiteral(0)))
            -> "InterpMathError"
      [] OTHER -> "InterpTypeError"

LinesOf(step) ==
    CASE step = Print_(IntLiteral(1)) -> <<Line(PyInt(1), Integer)>>
      [] step = Assign("x", Print_(IntLiteral(2))) -> <<Line(PyInt(2), Integer)>>
      [] step = Binary("Divide", Print_(IntLiteral(2)), Print_(IntLiteral(0)))
            -> <<Line(PyInt(2), Integer), Line(PyInt(0), Integer)>>
      [] step = Sequence(<<Print_(Ren), Not(Print_(IntLiteral(2)))>>)
            -> <<Line(None, Unit), Line(PyInt(2), Integer)>>
      [] OTHER -> <<>>

\* the program is a first step followed by Sequence[FailingStep, last]
FailsSecond ==
    /\ Len(program.exprs) = 2
    /\ program.exprs[2].node = "Sequence"
    /\ Len(program.exprs[2].exprs) = 2
    /\ program.exprs[2].exprs[1] = FailingStep

\* such a program never returns and never evaluates `last`; when it has
\* raised, the error is the first one in evaluation order and the output
\* is what was printed before it
FirstErrorOnly ==
    FailsSecond =>
        /\ ~Returned
        /\ Calls(<<2, 2>>) = 0
        /\ control.mode = "raise" =>
              /\ control.error = IF ErrorOf(program.exprs[1]) = NoError
                                 THEN "InterpTypeError"
                                 ELSE ErrorOf(program.exprs[1])
              /\ output = LinesOf(program.exprs[1])

\* C7: the first error raised in depth-first, left-to-right order ends the
\* evaluation with that error's class and no triple; nothing later in
\* evaluation order is evaluated, and the output is exactly the lines of
\* the Print nodes that completed before the error, in order.
C7_ErrorsFatal ==
    /\ [][ErrorStep]_vars
    /\ []FirstErrorOnly

\* Divide(Print(2), Print(0)) has raised MathError after its two lines, and
\* the steps after it were never evaluated
C7_Witness ==
    /\ control = Raise("InterpMathError")
    /\ FailsSecond
    /\ output = <<Line(PyInt(2), Integer), Line(PyInt(0), Integer)>>
    /\ Calls(<<2>>) = 0

\* a read returns the newest binding of the name and the environment as it
\* was, and raises a SyntaxError exactly when the name has no binding
VariableStep ==
    Calling("Variable") =>
        LET bound == Bound(control.state, control.expression.variable_name)
            newest == control.state[Newest(bound)]
        IN  IF bound = {}
            THEN control' = Raise("InterpSyntaxError")
            ELSE /\ control' = Return(newest.value[1], newest.value[2], control.state)
                 /\ stack' = stack

ShadowedRead ==
    Program(<<Assign("x", BooleanLiteral(FALSE)), Assign("y", StringLiteral(<<98>>)),
              Assign("x", BooleanLiteral(TRUE)), Variable("x")>>)

UnitRead == Program(<<Assign("y", Ren), Variable("y")>>)

\* C8: Variable(name) returns the value and type of the most recently added
\* binding of the name and the environment unchanged, and raises a
\* SyntaxError exactly when no binding of the chain has the name; a name
\* bound to the Unit value reads back as (Unit value, Unit type).
C8_VariableRead ==
    /\ [][VariableStep]_vars
    /\ [](program = UnitRead =>
            /\ control.mode # "raise"
            /\ Returned => control.value = None /\ control.type = Unit)

\* x, bound to false and then to true with a binding of y between, reads true
C8_Witness ==
    /\ Returned
    /\ program = ShadowedRead
    /\ control.value = True
    /\ control.type = Boolean
    /\ Len(control.state) = 3

\* q is n / d with the fraction dropped
Truncates(q, n, d) ==
    /\ Abs(q) * Abs(d) <= Abs(n)
    /\ Abs(n) < (Abs(q) + 1) * Abs(d)
    /\ q # 0 => (q > 0 <=> (n > 0 <=> d > 0))

\* C9: Divide on Integers a and b, b not 0, returns a / b rounded toward
\* zero with type Integer and the environment the right operand returned.
C9_IntegerDivision ==
    [][Returning("Divide", "right") /\ Top.left_type = Integer
                                     /\ control.type = Integer
                                     /\ control.value[1] # 0 =>
          /\ control'.mode = "return"
          /\ control'.type = Integer
          /\ control'.state = control.state
          /\ Len(control'.value) = 1
          /\ Truncates(control'.value[1], Top.left_value[1], control.value[1])]_vars

\* Divide(-7, 2) has returned -3
C9_Witness ==
    /\ Returned
    /\ program = Program(<<Binary("Divide", IntLiteral(-7), IntLiteral(2))>>)
    /\ control.value = PyInt(-3)
    /\ control.type = Integer

\* a binary node evaluates left in the incoming environment, then right in
\* the environment left returned, whatever left yielded, and returns the
\* environment right returned
BinaryStep ==
    \A kind \in BinaryKinds :
        /\ Calling(kind) =>
              control' = Call(control.expression.left, control.path \o <<1>>,
                              control.state)
        /\ Returning(kind, "left") =>
              control' = Call(Top.expression.right, Top.path \o <<2>>, control.state)
        /\ Returning(kind, "right") /\ control'.mode = "return" =>
              control'.state = control.state /\ stack' = Pop

BoundThenRead ==
    Program(<<Binary("Add", Assign("x", IntLiteral(1)), Variable("x"))>>)

\* C10: every binary node evaluates its left operand first, in the incoming
\* environment, then its right operand in the environment the left operand
\* returned, and returns the environment the right operand returned; the
\* type checks come after both operands have been evaluated.
C10_LeftToRight ==
    /\ [][BinaryStep]_vars
    /\ [](program = BoundThenRead =>
            /\ control.mode # "raise"
            /\ Returned => control.value = PyInt(2) /\ control.type = Integer)

\* Add(Assign(x, 1), Variable(x)) has returned 2 with x bound
C10_Witness ==
    /\ Returned
    /\ program = BoundThenRead
    /\ control.value = PyInt(2)
    /\ get_value(control.state, "x") = <<PyInt(1), Integer>>

\* old is what is left of new behind its newest bindings
Suffix(old, new) ==
    /\ Len(old) <= Len(new)
    /\ SubSeq(new, Len(new) - Len(old) + 1, Len(new)) = old

\* the activation that returns in a step: a leaf returns from its call, any
\* other node from the frame it leaves
ReturningPath == IF control.mode = "call" THEN control.path ELSE Top.path

\* the environment that activation was entered with
Incoming == IF control.mode = "call" THEN control.state ELSE Top.state

\* the call that entered the running activation of the node at path: the
\* last one, the earlier activations of a loop's node being over
Entered(path) ==
    CHOOSE i \in DOMAIN evaluated :
        /\ evaluated[i] = path
        /\ \A j \in DOMAIN evaluated : evaluated[j] = path => j <= i

\* the Assign evaluations among the calls from..; at a return, all of them
\* have completed
AssignsSince(from) ==
    Cardinality({i \in from..Len(evaluated) :
                    NodeAt(program, evaluated[i]).node = "Assign"})

\* an activation that returns hands back its incoming environment under as
\* many new bindings as Assign evaluations completed during it
GrowthStep ==
    control'.mode = "return" =>
        /\ control.mode = "return" => stack' = Pop
        /\ Suffix(Incoming, control'.state)
        /\ Len(control'.state) =
              Len(Incoming) + AssignsSince(Entered(ReturningPath))

\* only the commit of an Assign (line 107) changes the environment that is
\* handed on, by one binding of its name put before the chain
ThreadStep ==
    control'.mode # "raise" =>
        IF Returning("Assign", "value")
        THEN /\ control'.state # EmptyState
             /\ Tail(control'.state) = control.state
             /\ Head(control'.state) =
                   [variable_name |-> Top.expression.variable.variable_name,
                    value |-> <<control.value, control.type>>]
        ELSE control'.state = control.state

\* the literals, the no-op, Variable and Print return the environment they got
Leaves ==
    {"Ren", "IntLiteral", "FloatingPointLiteral", "StringLiteral",
     "BooleanLiteral", "Variable"}

LeafStep ==
    /\ control.mode = "call" /\ control'.mode = "return" =>
          /\ control.expression.node \in Leaves
          /\ control'.state = control.state
    /\ Returning("Print", "to_print") =>
          control'.state = control.state /\ Len(output') = Len(output) + 1

\* the environment a suspended activation holds stays as it is
HandleStep ==
    \A i \in DOMAIN stack \cap DOMAIN stack' :
        /\ stack'[i].state = stack[i].state
        /\ \A name \in {"x", "y", "i"} :
              get_value(stack'[i].state, name) = get_value(stack[i].state, name)

\* every environment held by a suspended activation is a suffix of those
\* held by the activations it called, and of the running one
HandlesNested ==
    \A i \in DOMAIN stack :
        IF i < Len(stack) THEN Suffix(stack[i].state, stack[i + 1].state)
        ELSE control.mode # "raise" => Suffix(stack[i].state, control.state)

Binding(name, n) == [variable_name |-> name, value |-> <<PyInt(n), Integer>>]

\* C11: the environment only grows, and only through Assign: an evaluation
\* that succeeds returns a chain of which its input environment is a suffix,
\* longer by the number of Assign evaluations completed during it; the
\* environments held meanwhile are not altered; literals, the no-op,
\* Variable and Print add nothing themselves; the counting loop ends with
\* the four bindings of i, newest first.
C11_EnvironmentGrows ==
    /\ [][GrowthStep /\ ThreadStep /\ LeafStep /\ HandleStep]_vars
    /\ []HandlesNested
    /\ [](Returned /\ program = CountingLoop =>
            control.state = <<Binding("i", 3), Binding("i", 2),
                              Binding("i", 1), Binding("i", 0)>>)

\* the While of the counting loop, entered with one binding, has returned
\* to the Program with the three bindings of its body before that one
C11_Witness ==
    /\ program = CountingLoop
    /\ control.mode = "return"
    /\ stack # <<>>
    /\ Top.expression.node = "Program"
    /\ Top.index = 2
    /\ Len(control.state) = 4
    /\ Suffix(<<Binding("i", 0)>>, control.state)
    /\ AssignsSince(1) = 4

\* the lines of Print(2), Print(false), Print(3.5) and Print(Ren) read
\* "2", "False", "3.5" and "Unit"
PrintedText ==
    Returned /\ Len(program.exprs) = 1 /\ program.exprs[1].node = "Print" =>
        LET e == program.exprs[1].to_print
        IN  /\ e = IntLiteral(2) => output = << <<50>> >>
            /\ e = BooleanLiteral(FALSE) => output = << <<70, 97, 108, 115, 101>> >>
            /\ e = FloatingPointLiteral(7, 2) => output = << <<51, 46, 53>> >>
            /\ e = FloatingPointLiteral(0, 1) => output = << <<48, 46, 48>> >>
            /\ e = StringLiteral(<<97>>) => output = << <<97>> >>
            /\ e = Ren => output = << <<85, 110, 105, 116>> >>

=============================================================================
